---- MODULE Spec2Model ----
(***************************************************************************)
(* Model of src/main.py: a batch ETL pipeline                              *)
(*   get_transaction_data -> clean_data -> enrich_data -> display_data     *)
(*   -> save_to_database                                                   *)
(* A DataFrame is a record [none, cols, rows]: `none` stands for Python's  *)
(* None, `cols` is the set of column names and `rows` the sequence of rows,*)
(* each row a function from cols to cells.  A cell is a tagged value       *)
(* [k, v]; amounts are integers counted in hundredths of a currency unit.  *)
(***************************************************************************)
EXTENDS Integers, Sequences, FiniteSets, Bags, TLC

VARIABLES
    pc,         \* position of main() / save_to_database()
    runs,       \* number of times main() was started
    raw,        \* raw_df of main
    cleaned,    \* cleaned_df of main
    enriched,   \* enriched_df of main
    fetch,      \* get_transaction_data in this run: "" not called, "ok", "failed"
    db,         \* committed contents of the relational store
    tx,         \* contents seen inside the open transaction of save_to_database
    conn,       \* local `conn` of save_to_database: "none" (None), "open", "closed"
    openConns,  \* connections returned by get_db_connection and not closed
    committed,  \* number of conn.commit() calls that succeeded in this call
    failedAt,   \* step of save_to_database that raised, "" if none
    batch,      \* local enriched_df of save_to_database after astype
    nfacts,     \* rows of transaction_data already executed by execute_batch
    dbBefore,   \* committed contents when save_to_database was entered
    prev,       \* the last completed save_to_database call: the frame it wrote and
                \* the committed contents before and after it, if it succeeded
    arg,        \* argument of a direct call of clean_data / enrich_data
    res,        \* its result
    called      \* which function was called directly, "" before the call

vars == <<pc, runs, raw, cleaned, enriched, fetch, db, tx, conn, openConns,
          committed, failedAt, batch, nfacts, dbBefore, prev, arg, res, called>>

mainVars == <<pc, runs, raw, cleaned, enriched, fetch, db, tx, conn,
              openConns, committed, failedAt, batch, nfacts, dbBefore, prev>>

fnVars == <<arg, res, called>>

----------------------------------------------------------------------------
(* Bounds of the model *)

MaxRows == 2
MaxBatch == 2
MaxRuns == 2

----------------------------------------------------------------------------
(* Cells *)

Null == [k |-> "null", v |-> 0]
NaN == [k |-> "nan", v |-> 0]
Num(n) == [k |-> "num", v |-> n]
NumStr(n) == [k |-> "numstr", v |-> n]
Text(i) == [k |-> "text", v |-> i]
IsoDate(d) == [k |-> "isodate", v |-> d]
AltDate(d) == [k |-> "altdate", v |-> d]
Low == [k |-> "low", v |-> 0]
Medium == [k |-> "medium", v |-> 0]
High == [k |-> "high", v |-> 0]
Unknown == [k |-> "unknown", v |-> 0]
NoneStr == [k |-> "str_None", v |-> 0]
NanStr == [k |-> "str_nan", v |-> 0]

\* pandas' isnull(): None and NaN are both missing values
IsNA(c) == c.k \in {"null", "nan"}

----------------------------------------------------------------------------
(* DataFrames *)

NoneDF == [none |-> TRUE, cols |-> {}, rows |-> <<>>]

Frame(cols, rows) == [none |-> FALSE, cols |-> cols, rows |-> rows]

\* `df is None or df.empty`
NoData(df) == df.none \/ df.cols = {} \/ Len(df.rows) = 0

\* dropna(subset=[col])
DropNA(rows, col) == SelectSeq(rows, LAMBDA r : ~IsNA(r[col]))

\* pd.to_datetime raises unless every value is a date in some format
DatesParse(rows, col) == \A i \in 1..Len(rows) : rows[i][col].k \in {"isodate", "altdate"}

\* pd.to_datetime(...).dt.strftime('%Y-%m-%d') of one value
StrfDate(c) == IsoDate(c.v)

\* df[col] = pd.to_datetime(df[col]).dt.strftime('%Y-%m-%d')
StrfDateCol(rows, col) ==
    [i \in 1..Len(rows) |->
        [c \in DOMAIN rows[i] |-> IF c = col THEN StrfDate(rows[i][c]) ELSE rows[i][c]]]

\* the try block of clean_data: on an exception the column is left as it was
StandardizeDates(rows, col) ==
    IF DatesParse(rows, col) THEN StrfDateCol(rows, col) ELSE rows

\* drop_duplicates(): the first of equal rows is kept
DropDuplicates(rows) ==
    LET F[i \in 0..Len(rows)] ==
            IF i = 0 THEN <<>>
            ELSE IF \E j \in 1..(i - 1) : rows[j] = rows[i]
                 THEN F[i - 1]
                 ELSE Append(F[i - 1], rows[i])
    IN  F[Len(rows)]

\* pd.to_numeric(errors='coerce') of one value
ToNumeric(c) ==
    CASE c.k = "num" -> c
      [] c.k = "numstr" -> Num(c.v)
      [] OTHER -> NaN

\* df[col] = pd.to_numeric(df[col], errors='coerce')
ToNumericCol(rows, col) ==
    [i \in 1..Len(rows) |->
        [c \in DOMAIN rows[i] |-> IF c = col THEN ToNumeric(rows[i][c]) ELSE rows[i][c]]]

\* clean_df[clean_df[col] >= 0]: a comparison with NaN is False
NonNegative(rows, col) == SelectSeq(rows, LAMBDA r : r[col].k = "num" /\ r[col].v >= 0)

CleanDates(df) ==
    IF "transaction_date" \in df.cols
    THEN StandardizeDates(DropNA(df.rows, "transaction_date"), "transaction_date")
    ELSE df.rows

CleanAmounts(cols, rows) ==
    IF "transaction_amount" \in cols
    THEN NonNegative(ToNumericCol(rows, "transaction_amount"), "transaction_amount")
    ELSE rows

clean_data(df) ==
    IF NoData(df) THEN NoneDF
    ELSE Frame(df.cols, CleanAmounts(df.cols, DropDuplicates(CleanDates(df))))

----------------------------------------------------------------------------
(* enrich_data *)

\* thresholds of categorize_amount, in hundredths: 50 and 200
LowLimit == 5000
MediumLimit == 20000

\* float(amount) succeeds for numbers, numeric strings and NaN; every
\* comparison with NaN is False, so NaN falls through to the else branch.
\* float(None) raises TypeError and float('abc') raises ValueError.
categorize_amount(c) ==
    CASE c.k \in {"num", "numstr"} ->
            IF c.v < LowLimit THEN Low
            ELSE IF c.v <= MediumLimit THEN Medium
            ELSE High
      [] c.k = "nan" -> High
      [] OTHER -> Unknown

\* sum of a group's amounts: groupby(...).sum() skips NaN
GroupSum(rows, cid) ==
    LET F[i \in 0..Len(rows)] ==
            IF i = 0 THEN 0
            ELSE IF rows[i]["customer_id"] = cid /\ rows[i]["transaction_amount"].k = "num"
                 THEN F[i - 1] + rows[i]["transaction_amount"].v
                 ELSE F[i - 1]
    IN  F[Len(rows)]

\* groupby('customer_id')[...].sum().reset_index(): one row per group key;
\* groupby leaves out the rows whose key is a missing value
CustomerTotals(rows) ==
    { [customer_id |-> cid, total_customer_transactions |-> Num(GroupSum(rows, cid))] :
        cid \in { rows[i]["customer_id"] : i \in { j \in 1..Len(rows) : ~IsNA(rows[j]["customer_id"]) } } }

\* value of a new column for row r after merge(..., on='customer_id', how='left')
MergedTotal(r, totals) ==
    LET m == { t \in totals : t.customer_id = r["customer_id"] }
    IN  IF m = {} THEN NaN ELSE (CHOOSE t \in m : TRUE).total_customer_transactions

EnrichRow(r, totals) ==
    [c \in DOMAIN r \cup {"amount_category", "total_customer_transactions"} |->
        CASE c = "transaction_amount" -> ToNumeric(r[c])
          [] c = "amount_category" -> categorize_amount(ToNumeric(r["transaction_amount"]))
          [] c = "total_customer_transactions" -> MergedTotal(r, totals)
          [] OTHER -> r[c]]

EnrichRows(rows) ==
    LET num == ToNumericCol(rows, "transaction_amount")
    IN  [i \in 1..Len(rows) |-> EnrichRow(rows[i], CustomerTotals(num))]

\* enrich_data without its `df is None or df.empty` check
enrich_data_unchecked(df) ==
    IF "transaction_amount" \notin df.cols THEN [raised |-> FALSE, df |-> df]
    ELSE IF "customer_id" \notin df.cols THEN [raised |-> TRUE, df |-> NoneDF]
    ELSE [raised |-> FALSE,
          df |-> Frame(df.cols \cup {"amount_category", "total_customer_transactions"},
                       EnrichRows(df.rows))]

\* result of enrich_data: the returned frame, or raised = TRUE when the
\* groupby on a frame without a customer_id column raises KeyError
enrich_data(df) ==
    IF NoData(df) THEN [raised |-> FALSE, df |-> NoneDF]
    ELSE IF "transaction_amount" \notin df.cols THEN [raised |-> FALSE, df |-> df]
    ELSE IF "customer_id" \notin df.cols THEN [raised |-> TRUE, df |-> NoneDF]
    ELSE [raised |-> FALSE,
          df |-> Frame(df.cols \cup {"amount_category", "total_customer_transactions"},
                       EnrichRows(df.rows))]

----------------------------------------------------------------------------
(* The relational store and the statements of save_to_database *)

\* the five lookup tables are sequences of rows in insertion order; the
\* transactions table has no key and is the bag of its rows
EmptyDB ==
    [customers |-> <<>>, products |-> <<>>, transaction_types |-> <<>>,
     spend_categories |-> <<>>, amount_categories |-> <<>>, transactions |-> EmptyBag]

\* the columns named by the astype mapping
RequiredCols ==
    {"customer_id", "product_id", "product_category", "transaction_date",
     "transaction_amount", "transaction_type", "spend_category", "amount_category"}

StrCols == RequiredCols \ {"transaction_amount"}

\* str(x): None gives 'None', NaN gives 'nan', a number gives its numeral
Str(c) ==
    CASE c.k = "null" -> NoneStr
      [] c.k = "nan" -> NanStr
      [] c.k = "num" -> NumStr(c.v)
      [] OTHER -> c

\* enriched_df.astype({...}) on a frame that has every mapped column
Astype(df) ==
    Frame(df.cols,
          [i \in 1..Len(df.rows) |->
              [c \in df.cols |-> IF c \in StrCols THEN Str(df.rows[i][c]) ELSE df.rows[i][c]]])

\* Series.unique() / DataFrame.drop_duplicates(): values in order of first appearance
Unique(vals) == DropDuplicates(vals)

\* INSERT ... ON CONFLICT (col) DO NOTHING of one row
InsertIgnore(table, row, col) ==
    IF \E i \in 1..Len(table) : table[i][col] = row[col] THEN table ELSE Append(table, row)

\* execute_batch of an ON CONFLICT (col) DO NOTHING insert over `data`
BatchInsertIgnore(table, data, col) ==
    LET F[i \in 0..Len(data)] ==
            IF i = 0 THEN table ELSE InsertIgnore(F[i - 1], data[i], col)
    IN  F[Len(data)]

customer_data(df) ==
    Unique([i \in 1..Len(df.rows) |-> [customer_id |-> Str(df.rows[i]["customer_id"])]])

product_data(df) ==
    Unique([i \in 1..Len(df.rows) |->
              [product_id |-> Str(df.rows[i]["product_id"]),
               product_category |-> Str(df.rows[i]["product_category"])]])

transaction_type_data(df) ==
    Unique([i \in 1..Len(df.rows) |->
              [transaction_type_name |-> Str(df.rows[i]["transaction_type"])]])

spend_category_data(df) ==
    Unique([i \in 1..Len(df.rows) |->
              [spend_category_name |-> Str(df.rows[i]["spend_category"])]])

\* upper end of the 'high' band, 999999.99, in hundredths
HighMax == 99999999

\* the amount_categories dict with the 'high' entry left out
amount_categories_without_high ==
    << [category_name |-> Low, min_amount |-> 0, max_amount |-> LowLimit],
       [category_name |-> Medium, min_amount |-> LowLimit, max_amount |-> MediumLimit] >>

\* the amount_categories dict, in its insertion order
amount_categories ==
    << [category_name |-> Low, min_amount |-> 0, max_amount |-> LowLimit],
       [category_name |-> Medium, min_amount |-> LowLimit, max_amount |-> MediumLimit],
       [category_name |-> High, min_amount |-> MediumLimit, max_amount |-> HighMax] >>

\* (SELECT id FROM table WHERE col = %s): a lookup row is identified by its
\* unique name; the subquery is NULL when no row has the name
LookupId(table, col, name) ==
    IF \E i \in 1..Len(table) : table[i][col] = name THEN name ELSE Null

\* the row that transaction_query inserts for one row of the frame
FactRow(store, r) ==
    [customer_id |-> Str(r["customer_id"]),
     product_id |-> Str(r["product_id"]),
     transaction_date |-> Str(r["transaction_date"]),
     transaction_amount |-> r["transaction_amount"],
     transaction_type_id |-> LookupId(store.transaction_types, "transaction_type_name",
                                      Str(r["transaction_type"])),
     spend_category_id |-> LookupId(store.spend_categories, "spend_category_name",
                                    Str(r["spend_category"])),
     amount_category_id |-> LookupId(store.amount_categories, "category_name",
                                     Str(r["amount_category"]))]

\* a fact insert that, like the lookup inserts, skips a row already stored
InsertFactIgnore(store, r) ==
    IF BagIn(FactRow(store, r), store.transactions)
    THEN store
    ELSE [store EXCEPT !.transactions = @ (+) SetToBag({FactRow(store, r)})]

InsertFact(store, r) ==
    [store EXCEPT !.transactions = @ (+) SetToBag({FactRow(store, r)})]

----------------------------------------------------------------------------
(* Inputs *)

AllCols ==
    {"customer_id", "product_id", "product_category", "transaction_date",
     "transaction_amount", "transaction_type", "spend_category"}

Restrict(r, cols) == [c \in cols |-> r[c]]

\* frames of 1..max rows over `recs`, with the columns `cols`
Frames(cols, recs, max) ==
    { Frame(cols, rows) :
        rows \in UNION { [1..n -> { Restrict(r, cols) : r \in recs }] : n \in 1..max } }

\* the JSON array [] : a frame with no rows and no columns
EmptyResponse == Frame({}, <<>>)

\* records the provider may return to main
ProviderRecords ==
    [customer_id : {Text(1), Null},
     product_id : {Text(1)},
     product_category : {Text(1)},
     transaction_date : {IsoDate(1)},
     transaction_amount : {Num(-500), Num(22000)},
     transaction_type : {Text(1)},
     spend_category : {Text(1)}]

ProviderSchemas == {AllCols, AllCols \ {"customer_id"}, AllCols \ {"transaction_amount"}}

ProviderBatches ==
    {EmptyResponse} \cup UNION { Frames(cols, ProviderRecords, MaxBatch) : cols \in ProviderSchemas }

----------------------------------------------------------------------------
(* main and save_to_database *)

NoCall == [ok |-> FALSE, df |-> NoneDF, before |-> EmptyDB, after |-> EmptyDB]

InitFn ==
    /\ arg = NoneDF
    /\ res = [raised |-> FALSE, df |-> NoneDF]
    /\ called = ""

InitMain ==
    /\ pc = "start"
    /\ runs = 1
    /\ raw = NoneDF
    /\ cleaned = NoneDF
    /\ enriched = NoneDF
    /\ fetch = ""
    /\ db = EmptyDB
    /\ tx = EmptyDB
    /\ conn = "none"
    /\ openConns = 0
    /\ committed = 0
    /\ failedAt = ""
    /\ batch = NoneDF
    /\ nfacts = 0
    /\ dbBefore = EmptyDB
    /\ prev = NoCall

Init == InitMain /\ InitFn

\* main: `if not get_db_connection()`.  psycopg2.connect raises when the
\* store cannot be reached; otherwise the connection object is true, no name
\* is bound to it and close() is never called on it.  Whether the
\* interpreter finalizes the unreferenced object, and so closes it, before
\* main returns is not decided by the program: both outcomes are kept.
ConnectionCheck ==
    /\ pc = "start"
    /\ \/ /\ openConns' \in {openConns, openConns + 1}
          /\ pc' = "fetch"
       \/ /\ openConns' = openConns
          /\ pc' = "crashed"
    /\ UNCHANGED <<runs, raw, cleaned, enriched, fetch, db, tx, conn, committed,
                   failedAt, batch, nfacts, dbBefore, prev, arg, res, called>>

\* raw_df = get_transaction_data(): None on any exception
Fetch ==
    /\ pc = "fetch"
    /\ \/ /\ raw' = NoneDF
          /\ fetch' = "failed"
          /\ pc' = "done"
       \/ \E df \in ProviderBatches :
              /\ raw' = df
              /\ fetch' = "ok"
              /\ pc' = "clean"
    /\ UNCHANGED <<runs, cleaned, enriched, db, tx, conn, openConns, committed,
                   failedAt, batch, nfacts, dbBefore, prev, arg, res, called>>

\* cleaned_df = clean_data(raw_df)
Clean ==
    /\ pc = "clean"
    /\ cleaned' = clean_data(raw)
    /\ pc' = IF cleaned'.none THEN "done" ELSE "enrich"
    /\ UNCHANGED <<runs, raw, enriched, fetch, db, tx, conn, openConns, committed,
                   failedAt, batch, nfacts, dbBefore, prev, arg, res, called>>

\* enriched_df = enrich_data(cleaned_df)
Enrich ==
    /\ pc = "enrich"
    /\ LET r == enrich_data(cleaned)
       IN  IF r.raised
           THEN pc' = "crashed" /\ enriched' = enriched
           ELSE /\ enriched' = r.df
                /\ pc' = IF r.df.none THEN "done" ELSE "display"
    /\ UNCHANGED <<runs, raw, cleaned, fetch, db, tx, conn, openConns, committed,
                   failedAt, batch, nfacts, dbBefore, prev, arg, res, called>>

\* display_data(enriched_df), then save_to_database is entered: conn = None
Display ==
    /\ pc = "display"
    /\ pc' = "save_astype"
    /\ conn' = "none"
    /\ committed' = 0
    /\ failedAt' = ""
    /\ nfacts' = 0
    /\ batch' = enriched
    /\ dbBefore' = db
    /\ UNCHANGED <<runs, raw, cleaned, enriched, fetch, db, tx, openConns, prev,
                   arg, res, called>>

\* enriched_df = enriched_df.astype({...}): KeyError when a column is missing
SaveAstype ==
    /\ pc = "save_astype"
    /\ IF RequiredCols \subseteq batch.cols
       THEN batch' = Astype(batch) /\ pc' = "save_connect" /\ failedAt' = failedAt
       ELSE batch' = batch /\ pc' = "save_except" /\ failedAt' = "astype"
    /\ UNCHANGED <<runs, raw, cleaned, enriched, fetch, db, tx, conn, openConns,
                   committed, nfacts, dbBefore, prev, arg, res, called>>

\* conn = get_db_connection(); cur = conn.cursor()
SaveConnect ==
    /\ pc = "save_connect"
    /\ \/ /\ conn' = "open"
          /\ openConns' = openConns + 1
          /\ tx' = db
          /\ pc' = "save_customers"
          /\ failedAt' = failedAt
       \/ /\ pc' = "save_except"
          /\ failedAt' = "connect"
          /\ UNCHANGED <<conn, openConns, tx>>
    /\ UNCHANGED <<runs, raw, cleaned, enriched, fetch, db, committed, batch,
                   nfacts, dbBefore, prev, arg, res, called>>

\* one statement (or batch of statements) on the cursor: it takes effect in
\* the transaction, or it raises; what a batch wrote before it raised stays
\* pending in the transaction and is dropped by the rollback, as tx is
Statement(at, next, store) ==
    /\ pc = at
    /\ \/ /\ tx' = store
          /\ pc' = next
          /\ failedAt' = failedAt
       \/ /\ tx' = tx
          /\ pc' = "save_except"
          /\ failedAt' = at
    /\ UNCHANGED <<runs, raw, cleaned, enriched, fetch, db, conn, openConns,
                   committed, batch, nfacts, dbBefore, prev, arg, res, called>>

SaveCustomers ==
    Statement("save_customers", "save_products",
              [tx EXCEPT !.customers = BatchInsertIgnore(@, customer_data(batch), "customer_id")])

SaveProducts ==
    Statement("save_products", "save_transaction_types",
              [tx EXCEPT !.products = BatchInsertIgnore(@, product_data(batch), "product_id")])

SaveTransactionTypes ==
    Statement("save_transaction_types", "save_spend_categories",
              [tx EXCEPT !.transaction_types =
                  BatchInsertIgnore(@, transaction_type_data(batch), "transaction_type_name")])

SaveSpendCategories ==
    Statement("save_spend_categories", "save_amount_categories",
              [tx EXCEPT !.spend_categories =
                  BatchInsertIgnore(@, spend_category_data(batch), "spend_category_name")])

SaveAmountCategories ==
    Statement("save_amount_categories",
              IF Len(batch.rows) = 0 THEN "save_commit" ELSE "save_transactions",
              [tx EXCEPT !.amount_categories =
                  BatchInsertIgnore(@, amount_categories, "category_name")])

\* execute_batch(cur, transaction_query, transaction_data), one row at a time
SaveTransactions ==
    /\ pc = "save_transactions"
    /\ nfacts < Len(batch.rows)
    /\ \/ /\ tx' = InsertFact(tx, batch.rows[nfacts + 1])
          /\ nfacts' = nfacts + 1
          /\ pc' = IF nfacts + 1 = Len(batch.rows) THEN "save_commit" ELSE "save_transactions"
          /\ failedAt' = failedAt
       \/ /\ tx' = tx
          /\ nfacts' = nfacts
          /\ pc' = "save_except"
          /\ failedAt' = "save_transactions"
    /\ UNCHANGED <<runs, raw, cleaned, enriched, fetch, db, conn, openConns,
                   committed, batch, dbBefore, prev, arg, res, called>>

\* conn.commit()
SaveCommit ==
    /\ pc = "save_commit"
    /\ \/ /\ db' = tx
          /\ committed' = committed + 1
          /\ pc' = "save_finally"
          /\ failedAt' = failedAt
       \/ /\ pc' = "save_except"
          /\ failedAt' = "save_commit"
          /\ UNCHANGED <<db, committed>>
    /\ UNCHANGED <<runs, raw, cleaned, enriched, fetch, tx, conn, openConns,
                   batch, nfacts, dbBefore, prev, arg, res, called>>

\* an except block that commits where the code rolls back
SaveExceptCommit ==
    /\ pc = "save_except"
    /\ db' = IF conn = "open" THEN tx ELSE db
    /\ pc' = "save_finally"
    /\ UNCHANGED <<runs, raw, cleaned, enriched, fetch, tx, conn, openConns,
                   committed, failedAt, batch, nfacts, dbBefore, prev, arg, res, called>>

\* except Exception: if conn: conn.rollback()
SaveExcept ==
    /\ pc = "save_except"
    /\ tx' = IF conn = "open" THEN db ELSE tx
    /\ pc' = "save_finally"
    /\ UNCHANGED <<runs, raw, cleaned, enriched, fetch, db, conn, openConns,
                   committed, failedAt, batch, nfacts, dbBefore, prev, arg, res, called>>

\* finally: if conn: conn.close(); save_to_database returns
SaveFinally ==
    /\ pc = "save_finally"
    /\ IF conn = "open"
       THEN conn' = "closed" /\ openConns' = openConns - 1
       ELSE UNCHANGED <<conn, openConns>>
    /\ prev' = IF failedAt = ""
               THEN [ok |-> TRUE, df |-> batch, before |-> dbBefore, after |-> db]
               ELSE [NoCall EXCEPT !.after = db]
    /\ pc' = "save_return"
    /\ UNCHANGED <<runs, raw, cleaned, enriched, fetch, db, tx, committed,
                   failedAt, batch, nfacts, dbBefore, arg, res, called>>

\* print("Process completed!"), main returns
SaveReturn ==
    /\ pc = "save_return"
    /\ pc' = "done"
    /\ UNCHANGED <<runs, raw, cleaned, enriched, fetch, db, tx, conn, openConns,
                   committed, failedAt, batch, nfacts, dbBefore, prev, arg, res, called>>

\* the program is started again, against the same store: a new process
\* holds no connection and no frame of the previous one
Rerun ==
    /\ pc \in {"done", "crashed"}
    /\ runs < MaxRuns
    /\ runs' = runs + 1
    /\ pc' = "start"
    /\ raw' = NoneDF
    /\ cleaned' = NoneDF
    /\ enriched' = NoneDF
    /\ fetch' = ""
    /\ tx' = db
    /\ conn' = "none"
    /\ openConns' = 0
    /\ committed' = 0
    /\ failedAt' = ""
    /\ batch' = NoneDF
    /\ nfacts' = 0
    /\ dbBefore' = db
    /\ UNCHANGED <<db, prev, arg, res, called>>

Next ==
    \/ ConnectionCheck
    \/ Fetch
    \/ Clean
    \/ Enrich
    \/ Display
    \/ SaveAstype
    \/ SaveConnect
    \/ SaveCustomers
    \/ SaveProducts
    \/ SaveTransactionTypes
    \/ SaveSpendCategories
    \/ SaveAmountCategories
    \/ SaveTransactions
    \/ SaveCommit
    \/ SaveExcept
    \/ SaveFinally
    \/ SaveReturn
    \/ Rerun

Spec == Init /\ [][Next]_vars

----------------------------------------------------------------------------
(* Direct calls of clean_data and enrich_data on arbitrary frames *)

CleanRecords ==
    [customer_id : {Text(1)},
     product_id : {Text(1)},
     product_category : {Text(1)},
     transaction_date : {IsoDate(1), AltDate(1), Text(9), Null},
     transaction_amount : {Num(-500), Num(3000), NumStr(3000), Text(9), Null},
     transaction_type : {Text(1)},
     spend_category : {Text(1)}]

CleanSchemas == {AllCols, AllCols \ {"transaction_date"}, AllCols \ {"transaction_amount"}}

CleanInputs ==
    {EmptyResponse} \cup UNION { Frames(cols, CleanRecords, MaxRows) : cols \in CleanSchemas }

EnrichRecords ==
    [customer_id : {Text(1), Text(2), Null},
     product_id : {Text(1)},
     product_category : {Text(1)},
     transaction_date : {IsoDate(1)},
     transaction_amount : {Num(4999), Num(5000), Num(20000), Num(20001),
                           NumStr(3000), Text(9), Null},
     transaction_type : {Text(1)},
     spend_category : {Text(1)}]

EnrichSchemas == {AllCols, AllCols \ {"customer_id"}, AllCols \ {"transaction_amount"}}

EnrichInputs ==
    {EmptyResponse} \cup UNION { Frames(cols, EnrichRecords, MaxRows) : cols \in EnrichSchemas }

InitClean ==
    /\ InitMain
    /\ arg \in CleanInputs
    /\ res = [raised |-> FALSE, df |-> NoneDF]
    /\ called = ""

CallClean ==
    /\ called = ""
    /\ res' = [raised |-> FALSE, df |-> clean_data(arg)]
    /\ called' = "clean_data"
    /\ UNCHANGED <<arg, mainVars>>

SpecClean == InitClean /\ [][CallClean]_vars

InitEnrich ==
    /\ InitMain
    /\ arg \in EnrichInputs
    /\ res = [raised |-> FALSE, df |-> NoneDF]
    /\ called = ""

CallEnrich ==
    /\ called = ""
    /\ res' = enrich_data(arg)
    /\ called' = "enrich_data"
    /\ UNCHANGED <<arg, mainVars>>

SpecEnrich == InitEnrich /\ [][CallEnrich]_vars

----------------------------------------------------------------------------
(* Properties *)

SavePcs ==
    {"save_astype", "save_connect", "save_customers", "save_products",
     "save_transaction_types", "save_spend_categories", "save_amount_categories",
     "save_transactions", "save_commit", "save_except", "save_finally", "save_return"}

\* save_to_database has ended, or main has returned after it
SaveEnded == pc \in {"save_return", "done"} /\ ~batch.none

\* save_to_database was entered in this run
SaveEntered == pc \in SavePcs \/ (pc = "done" /\ ~batch.none)

InTable(table, col, x) == \E i \in 1..Len(table) : table[i][col] = x

NoDuplicateKey(table, col) ==
    \A i, j \in 1..Len(table) : table[i][col] = table[j][col] => i = j

LookupTables(store) ==
    <<store.customers, store.products, store.transaction_types,
      store.spend_categories, store.amount_categories>>

\* the bag of fact rows that one run inserts for the frame df
FactsOf(store, df) ==
    LET F[i \in 0..Len(df.rows)] ==
            IF i = 0 THEN EmptyBag ELSE F[i - 1] (+) SetToBag({FactRow(store, df.rows[i])})
    IN  F[Len(df.rows)]

\* every fact row of the store refers to rows that the store holds
RefsResolve(store) ==
    \A f \in BagToSet(store.transactions) :
        /\ InTable(store.customers, "customer_id", f.customer_id)
        /\ InTable(store.products, "product_id", f.product_id)
        /\ f.transaction_type_id # Null
        /\ InTable(store.transaction_types, "transaction_type_name", f.transaction_type_id)
        /\ f.spend_category_id # Null
        /\ InTable(store.spend_categories, "spend_category_name", f.spend_category_id)
        /\ f.amount_category_id # Null
        /\ InTable(store.amount_categories, "category_name", f.amount_category_id)

\* sum of transaction_amount over the rows with the customer_id cid
SumFor(rows, cid) ==
    LET F[i \in 0..Len(rows)] ==
            IF i = 0 THEN 0
            ELSE F[i - 1] + (IF rows[i]["customer_id"] = cid
                             THEN rows[i]["transaction_amount"].v ELSE 0)
    IN  F[Len(rows)]

\* C1: a call of save_to_database that fails at any step (type conversion,
\* connection, a lookup upsert, a fact insert, the commit) leaves the
\* committed store as it was when the call was entered and never commits;
\* pending writes of the failed transaction are discarded; a call commits at
\* most once, and only after every fact row of the batch was written.
C1_FailureRollsBack ==
    /\ committed <= 1
    /\ committed = 1 =>
          /\ failedAt = ""
          /\ nfacts = Len(batch.rows)
          /\ pc \in {"save_finally", "save_return", "done"}
    /\ committed = 0 => db = dbBefore
    /\ failedAt # "" => committed = 0 /\ db = dbBefore
    /\ (failedAt # "" /\ SaveEnded /\ conn # "none") => tx = db

\* a call failed on a fact row after an earlier fact row was written, against
\* a store that already held rows
C1_Witness ==
    /\ pc = "save_return"
    /\ failedAt = "save_transactions"
    /\ nfacts >= 1
    /\ Len(db.customers) > 0

\* C2: the output of clean_data holds no two rows equal in all fields and no
\* row with a negative transaction_amount.
C2_NoDuplicatesNoNegatives ==
    (called = "clean_data" /\ ~res.df.none) =>
        /\ \A i, j \in 1..Len(res.df.rows) : i # j => res.df.rows[i] # res.df.rows[j]
        /\ "transaction_amount" \in res.df.cols =>
              \A i \in 1..Len(res.df.rows) :
                  ~(res.df.rows[i]["transaction_amount"].k = "num"
                    /\ res.df.rows[i]["transaction_amount"].v < 0)

\* C3: for every row processed by enrich_data, amount_category is low iff
\* the amount is below 50, medium iff it is from 50 to 200, high iff it is
\* above 200, and unknown when the amount is not numeric.
C3_CategoryByAmount ==
    (called = "enrich_data" /\ ~res.raised /\ ~res.df.none
        /\ "amount_category" \in res.df.cols) =>
        \A i \in 1..Len(res.df.rows) :
            LET a == arg.rows[i]["transaction_amount"]
                c == res.df.rows[i]["amount_category"]
                numeric == a.k \in {"num", "numstr"}
            IN  /\ c = Low <=> (numeric /\ a.v < LowLimit)
                /\ c = Medium <=> (numeric /\ LowLimit <= a.v /\ a.v <= MediumLimit)
                /\ c = High <=> (numeric /\ a.v > MediumLimit)
                /\ ~numeric => c = Unknown

\* C4: for a clean batch, enrich_data returns one row per input row, each
\* row's total_customer_transactions is the sum of transaction_amount over
\* the rows with the same customer_id (a missing customer_id included), and
\* reordering the input does not change the value given to a row.
C4_CustomerTotals ==
    (pc \in {"display"} \cup SavePcs /\ "transaction_amount" \in cleaned.cols) =>
        /\ Len(enriched.rows) = Len(cleaned.rows)
        /\ \A i \in 1..Len(enriched.rows) :
              enriched.rows[i]["total_customer_transactions"] =
                  Num(SumFor(cleaned.rows, cleaned.rows[i]["customer_id"]))
        /\ \A p \in Permutations(1..Len(cleaned.rows)) :
              LET out == enrich_data(Frame(cleaned.cols,
                             [i \in 1..Len(cleaned.rows) |-> cleaned.rows[p[i]]])).df
              IN  \A i \in 1..Len(cleaned.rows) :
                      out.rows[i]["total_customer_transactions"] =
                          enriched.rows[p[i]]["total_customer_transactions"]

\* C5: when save_to_database succeeds twice in succession with the same
\* frame, the second call leaves the five lookup tables exactly as the first
\* left them, with no natural key twice, and the transactions table gains
\* the frame's rows once per call: after the second call it holds what it
\* held before the first, plus two rows per row of the frame.
C5_SecondRunKeepsLookupsDoublesFacts ==
    (pc = "save_finally" /\ failedAt = "" /\ prev.ok /\ prev.df = batch
        /\ prev.after = dbBefore) =>
        /\ LookupTables(db) = LookupTables(prev.after)
        /\ NoDuplicateKey(db.customers, "customer_id")
        /\ NoDuplicateKey(db.products, "product_id")
        /\ NoDuplicateKey(db.transaction_types, "transaction_type_name")
        /\ NoDuplicateKey(db.spend_categories, "spend_category_name")
        /\ NoDuplicateKey(db.amount_categories, "category_name")
        /\ prev.after.transactions = prev.before.transactions (+) FactsOf(db, batch)
        /\ db.transactions = prev.after.transactions (+) FactsOf(db, batch)
        /\ BagCardinality(db.transactions) =
               BagCardinality(prev.before.transactions) + 2 * Len(batch.rows)

\* the second of two successful calls with the same two-row frame has committed
C5_Witness ==
    /\ pc = "save_finally"
    /\ failedAt = ""
    /\ prev.ok
    /\ prev.df = batch
    /\ Len(batch.rows) = 2
    /\ committed = 1

\* C6: save_to_database is entered only after a successful fetch with a
\* non-empty raw, cleaned and enriched frame; when the fetch fails, the
\* response is empty or no row survives cleaning, nothing after the stage
\* that found no data does any work, no write is attempted and main returns
\* without an exception.
C6_NoDataHaltsPipeline ==
    /\ SaveEntered =>
          fetch = "ok" /\ ~NoData(raw) /\ ~NoData(cleaned) /\ ~NoData(enriched)
    /\ fetch = "failed" =>
          /\ pc = "done"
          /\ cleaned.none /\ enriched.none /\ batch.none
          /\ conn = "none" /\ db = dbBefore /\ tx = db
    /\ (fetch = "ok" /\ pc # "clean" /\ NoData(cleaned)) =>
          /\ pc \in {"enrich", "done"}
          /\ enriched.none /\ batch.none
          /\ conn = "none" /\ db = dbBefore /\ tx = db

\* main has returned after a fetch of rows none of which survived cleaning
C6_Witness ==
    /\ pc = "done"
    /\ fetch = "ok"
    /\ ~NoData(raw)
    /\ ~cleaned.none
    /\ Len(cleaned.rows) = 0
    /\ batch.none

\* C7: no failure ends main with an unhandled exception.
C7_NoUnhandledError == pc # "crashed"

C9_ConnectionsClosed == pc = "done" => openConns = 0

\* C10: when the raw frame has a transaction_date column, every row of the
\* output of clean_data has a non-null transaction_date in YYYY-MM-DD form.
C10_DatesNormalized ==
    (called = "clean_data" /\ "transaction_date" \in arg.cols /\ ~res.df.none) =>
        \A i \in 1..Len(res.df.rows) :
            res.df.rows[i]["transaction_date"].k = "isodate"

====
